---- MODULE Spec2Model ----
(***************************************************************************)
(* Mount lifecycle of the Haio client (src/main_new.py): RcloneManager     *)
(* (mount_bucket, unmount_bucket, is_mounted, auto-mount registrations),   *)
(* BucketWidget (mount-target allocation) and HaioDriveClient (workers).   *)
(* The operating system (file system, drive letters, rclone helper         *)
(* processes, service manager) is modelled as state the code observes      *)
(* through the calls it makes.                                             *)
(***************************************************************************)
EXTENDS Integers, Sequences, FiniteSets, TLC

\* ------------------------------------------------------------------ bounds
NumBuckets == 2
NumLetters == 2
MaxWorkers == 2
MaxHelpers == 2
MaxUiOps == 4
MaxPending == 1

\* --------------------------------------------------------- program constants
\* for i in range(15): the Windows readiness poll
MOUNT_POLLS == 15

\* ------------------------------------------------------------------- names
Linux == "Linux"
Windows == "Windows"
Platforms == {Linux, Windows}

\* Container names are case-sensitive.  AllNames are the names a volume
\* label on this machine may carry; Buckets are the containers of the
\* logged-in account (self.buckets).
BucketNames == <<"a", "b", "A">>
AllNames == {"a", "b", "A"}
Buckets == {BucketNames[i] : i \in 1..NumBuckets}

\* The characters of a bucket name (TLC strings are atomic).
NameChars(b) ==
  CASE b = "a" -> <<"a">>
    [] b = "A" -> <<"A">>
    [] OTHER   -> <<"b">>

\* int(hashlib.md5(name.encode()).hexdigest(), 16), kept modulo 360360
\* (= lcm(1..15)), which preserves the value modulo every pool size <= 15.
Md5(b) ==
  CASE b = "a" -> 181657
    [] b = "A" -> 335065
    [] OTHER   -> 325903

\* string.ascii_uppercase[12:], cut to the first NumLetters letters.
LetterList == <<"M", "N", "O", "P">>
Letters == SubSeq(LetterList, 1, NumLetters)
LetterSet == {Letters[i] : i \in 1..NumLetters}

\* string.ascii_uppercase without 'A', 'B', 'C' and before 'M', cut to its
\* first two letters: the letters toggle_auto_mount tries before the pool.
LowLetterList == <<"D", "E">>

DriveOf(letter) == letter \o ":"
\* os.path.join(user_home, f"haio-{username}-{bucket}") for the one user "u"
FolderOf(b) == "~/haio-u-" \o b

DriveTargets == {DriveOf(l) : l \in LetterSet}
FolderTargets == {FolderOf(b) : b \in Buckets}
Targets == DriveTargets \cup FolderTargets
NoTarget == "none"

\* mount_point.endswith(':')
IsDrive(t) == t \in DriveTargets

\* ------------------------------------------------------------ string helpers
LowerChar(c) ==
  CASE c = "A" -> "a"
    [] c = "B" -> "b"
    [] c = "D" -> "d"
    [] c = "H" -> "h"
    [] c = "T" -> "t"
    [] OTHER   -> c

\* str.lower()
StrLower(s) == [i \in 1..Len(s) |-> LowerChar(s[i])]

RECURSIVE LStrip(_)
LStrip(s) == IF s # <<>> /\ Head(s) = " " THEN LStrip(Tail(s)) ELSE s

RECURSIVE RStrip(_)
RStrip(s) ==
  IF s # <<>> /\ s[Len(s)] = " " THEN RStrip(SubSeq(s, 1, Len(s) - 1)) ELSE s

\* str.strip()
StrStrip(s) == RStrip(LStrip(s))

\* f"Haio-{bucket_name}": the --volname given to rclone, and expected_volume
VolName(b) == <<"H", "a", "i", "o", "-">> \o NameChars(b)

\* Label of a volume that is not one of ours.
ForeignLabel == <<"D", "A", "T", "A">>

VARIABLES
  platform,   \* platform.system()
  winfsp,     \* WinFsp installed (Windows)
  fuse,       \* FUSE installed (Linux)
  rclone,     \* the rclone executable is there
  exitcode,   \* what main() returned in --auto-mount mode, NoExit before
  buckets,    \* HaioDriveClient.buckets: the listing the widgets are built from
  script,     \* what the last cleanup_stale_mount call of the script returned
  fs,         \* per target: what the OS has there
  helpers,    \* rclone mount processes, by process slot
  workers,    \* MountWorker threads of HaioDriveClient.active_workers
  widgets,    \* per bucket: BucketWidget.mount_point / .is_mounted
  services,   \* the auto-mount registrations in the OS, pending commands
  autoq,      \* last create/remove call: bucket, request, result, auth
  uiops,      \* user actions in the window so far (clicks, refreshes)
  admin       \* RcloneManager._is_admin()

vars == <<platform, winfsp, fuse, rclone, exitcode, buckets, script, fs, helpers, workers, widgets, services, autoq, uiops, admin>>

\* ----------------------------------------------------------- OS observations
Absent == [kind |-> "absent", owner |-> "", hid |-> 0, health |-> "ok", nonempty |-> FALSE]
EmptyDir == [kind |-> "dir", owner |-> "", hid |-> 0, health |-> "ok", nonempty |-> FALSE]
UserDir == [kind |-> "dir", owner |-> "", hid |-> 0, health |-> "ok", nonempty |-> TRUE]
PlainFile == [kind |-> "file", owner |-> "", hid |-> 0, health |-> "ok", nonempty |-> FALSE]
ForeignVolume == [kind |-> "volume", owner |-> "", hid |-> 0, health |-> "ok", nonempty |-> TRUE]
MountBy(b, h, ne) == [kind |-> "mount", owner |-> b, hid |-> h, health |-> "ok", nonempty |-> ne]

\* os.path.exists: os.stat succeeds.  A FUSE mount whose daemon is gone
\* ("dead") answers every call, stat included, with ENOTCONN.
PathExistsAt(r) == r.kind # "absent" /\ r.health # "dead"
PathExists(t) == PathExistsAt(fs[t])

\* os.path.isdir
IsDirAt(r) == PathExistsAt(r) /\ r.kind \in {"dir", "mount", "volume"}
IsDir(t) == IsDirAt(fs[t])

\* os.listdir returns (no OSError)
ListdirOkAt(r) == IsDirAt(r) /\ r.health = "ok"
ListdirOk(t) == ListdirOkAt(fs[t])

\* os.listdir returns a non-empty list
ListdirNonEmpty(t) == ListdirOk(t) /\ fs[t].nonempty

\* The OS mount table has an entry for the target (os.path.ismount).
IsMountEntryAt(r) == r.kind = "mount"
IsMountEntry(t) == IsMountEntryAt(fs[t])

\* `mountpoint -q` exits 0: it stats the path first, then looks it up.
MountpointRc0At(r) == r.kind = "mount" /\ r.health # "dead"

\* ------------------------------------------------------ StaleMountDetector
\* RcloneManager.is_stale_mount, on what the OS has at the target
IsStaleMountAt(r) ==
  IF ~PathExistsAt(r) THEN FALSE
  ELSE IF ListdirOkAt(r) THEN FALSE
  ELSE TRUE

is_stale_mount(t) == IsStaleMountAt(fs[t])

\* RcloneManager.is_mounted, on what the OS has at the target
IsMountedAt(t, r) ==
  IF platform = Windows
  THEN IF IsDrive(t)
       THEN IF PathExistsAt(r) THEN ListdirOkAt(r) ELSE FALSE
       ELSE PathExistsAt(r) /\ IsMountEntryAt(r)
  ELSE IF MountpointRc0At(r)
       THEN IF IsStaleMountAt(r) THEN FALSE ELSE TRUE
       ELSE FALSE

is_mounted(t) == IsMountedAt(t, fs[t])

\* ------------------------------------------------------ MountTargetAllocator
\* The allocator reads the live OS state; f is that state (fs in the
\* program), so that two states of the machine can be compared.

\* GetVolumeInformationW / Get-Volume: the label of the volume on a drive
VolumeLabelAt(r) ==
  IF r.kind = "mount" THEN VolName(r.owner)
  ELSE IF r.kind = "volume" THEN ForeignLabel
  ELSE <<>>

\* BucketWidget._is_drive_accessible
IsDriveAccessible(f, letter) ==
  PathExistsAt(f[DriveOf(letter)]) /\ ListdirOkAt(f[DriveOf(letter)])

\* The labels a drive of this machine can carry, and s.strip().lower() of
\* each (tabulated once).
Labels == {VolName(n) : n \in AllNames} \cup {ForeignLabel, <<>>}
StripLower == [s \in Labels |-> StrLower(StrStrip(s))]

\* expected_label.strip().lower() == label.strip().lower()
LabelMatches(expected, label) == StripLower[expected] = StripLower[label]

\* BucketWidget._get_volume_label_winapi: None (here "fail") or the label
GetVolumeLabelWinapi(f, letter) ==
  IF ~PathExistsAt(f[DriveOf(letter)]) THEN <<"fail">>
  ELSE <<"ok", VolumeLabelAt(f[DriveOf(letter)])>>

\* BucketWidget._check_drive_volume_label: WinAPI first, then the PowerShell
\* fallback, which reads the same label of the same volume.
CheckDriveVolumeLabel(f, letter, expected) ==
  LET api == GetVolumeLabelWinapi(f, letter)
      viaApi == api[1] = "ok" /\ api[2] # <<>> /\ LabelMatches(expected, api[2])
      ps == VolumeLabelAt(f[DriveOf(letter)])
      viaPs == ps # <<>> /\ LabelMatches(expected, ps)
  IN viaApi \/ viaPs

\* The loop of _find_existing_bucket_drive from the i-th pool letter on:
\* the first letter that is accessible and carries the expected label.
RECURSIVE ScanDrivesFrom(_, _, _)
ScanDrivesFrom(f, b, i) ==
  IF i > NumLetters THEN ""
  ELSE IF IsDriveAccessible(f, Letters[i])
          /\ CheckDriveVolumeLabel(f, Letters[i], VolName(b))
       THEN Letters[i]
       ELSE ScanDrivesFrom(f, b, i + 1)

\* BucketWidget._find_existing_bucket_drive; "" when no drive is adopted
FindExistingBucketDrive(f, b) == ScanDrivesFrom(f, b, 1)

\* BucketWidget._get_available_drive_letters
GetAvailableDriveLetters(f) ==
  SelectSeq(Letters, LAMBDA d : ~(PathExistsAt(f[DriveOf(d)]) /\ ListdirOkAt(f[DriveOf(d)])))

\* drive_index = bucket_hash % len(available_drives)
DriveIndex(b, available) == Md5(b) % Len(available)

\* A variant of the allocation that also adopts a pool letter whose volume
\* carries the bucket's label although the drive cannot be listed: its
\* answer then depends on more than the pool of unused letters.
AllocateAdoptingUnlisted(f, b) ==
  IF platform = Windows
  THEN LET detected == FindExistingBucketDrive(f, b)
           available == GetAvailableDriveLetters(f)
           unlisted == {i \in 1..NumLetters :
                          /\ ~IsDriveAccessible(f, Letters[i])
                          /\ VolumeLabelAt(f[DriveOf(Letters[i])]) = VolName(b)}
       IN IF detected # "" THEN DriveOf(detected)
          ELSE IF unlisted # {}
               THEN DriveOf(Letters[CHOOSE i \in unlisted : \A j \in unlisted : i <= j])
               ELSE IF available # <<>>
                    THEN DriveOf(available[DriveIndex(b, available) + 1])
                    ELSE FolderOf(b)
  ELSE FolderOf(b)

\* BucketWidget.__init__: the mount point chosen for a bucket
AllocateIn(f, b) ==
  IF platform = Windows
  THEN LET detected == FindExistingBucketDrive(f, b)
           available == GetAvailableDriveLetters(f)
       IN IF detected # "" THEN DriveOf(detected)
          ELSE IF available # <<>>
               THEN DriveOf(available[DriveIndex(b, available) + 1])
               ELSE FolderOf(b)
  ELSE FolderOf(b)

AllocateMountPoint(b) == AllocateIn(fs, b)

\* ------------------------------------------------------------------- state
NoHelper == [st |-> "free", bucket |-> "", target |-> ""]
HelperIds == 1..MaxHelpers
WorkerIds == 1..MaxWorkers

IdleWorker ==
  [op |-> "idle", bucket |-> "", target |-> "", pc |-> "idle", polls |-> 0,
   launched |-> 0, healthyAtCall |-> FALSE, result |-> "none", err |-> "none",
   cmds |-> <<>>]

\* main() has not returned
NoExit == -1

NoWidget == [mount_point |-> NoTarget, is_mounted |-> FALSE]
\* The names of create_systemd_service and create_windows_startup_task
ServiceName(b) == "haio-u-" \o b \o ".service"
TaskName(b) == "HaioMount-u-" \o b

\* An entry of the registry
Unit(name, b, t, en, act) ==
  [name |-> name, bucket |-> b, mount_point |-> t, enabled |-> en, active |-> act]

NoServices == [reg |-> {}, pending |-> {}]
NoAuto == [bucket |-> "", want |-> FALSE, result |-> "none", auth |-> "none", before |-> FALSE]

FreeHelpers == {h \in HelperIds : helpers[h].st = "free"}
FreeHelper == CHOOSE h \in FreeHelpers : \A k \in FreeHelpers : h <= k
IdleWorkers == {w \in WorkerIds : workers[w].op = "idle"}
FreeWorker == CHOOSE w \in IdleWorkers : \A k \in IdleWorkers : w <= k

\* rclone processes whose command line names the target as mount point
HelpersBoundTo(t) == {h \in HelperIds : helpers[h].st # "free" /\ helpers[h].target = t}

\* The machine before the client starts.  Linux: the per-bucket directory
\* under home is absent, a non-empty directory of the user's, or a file.
\* Windows: each pool letter is free or holds a foreign volume, and one
\* letter may hold a mount left by an earlier run of the client.
InitLinux ==
  /\ platform = Linux
  /\ winfsp = TRUE
  /\ fs \in [Targets -> {Absent, UserDir, PlainFile}]
  /\ \A t \in DriveTargets : fs[t] = Absent
  /\ helpers = [h \in HelperIds |-> NoHelper]

InitWindows ==
  /\ platform = Windows
  /\ winfsp \in BOOLEAN
  /\ fs \in [Targets -> {Absent, ForeignVolume}]
  /\ \A t \in FolderTargets : fs[t] = Absent
  /\ helpers = [h \in HelperIds |-> NoHelper]

\* Windows with every pool letter taken by a volume that is not ours, the
\* case in which the folder under home is the mount point: the folder is
\* absent, a non-empty directory of the user's, or a file.
InitWindowsFolders ==
  /\ platform = Windows
  /\ winfsp \in BOOLEAN
  /\ fs \in [Targets -> {Absent, UserDir, PlainFile, ForeignVolume}]
  /\ \A t \in DriveTargets : fs[t] = ForeignVolume
  /\ \A t \in FolderTargets : fs[t] # ForeignVolume
  /\ helpers = [h \in HelperIds |-> NoHelper]

\* Windows with one pool letter holding a mount left by an earlier run of
\* the client, its rclone still serving it.
InitWindowsLeftover ==
  /\ platform = Windows
  /\ winfsp \in BOOLEAN
  /\ \E base \in [Targets -> {Absent, ForeignVolume}], l \in LetterSet, o \in AllNames :
       /\ \A t \in FolderTargets : base[t] = Absent
       /\ base[DriveOf(l)] = Absent
       /\ fs = [base EXCEPT ![DriveOf(l)] = MountBy(o, 1, TRUE)]
       /\ helpers = [h \in HelperIds |->
                       IF h = 1
                       THEN [st |-> "serving", bucket |-> o, target |-> DriveOf(l)]
                       ELSE NoHelper]

\* The client after construction.  _is_admin() is True off Windows; on
\* Windows the client runs elevated or not.
InitSession ==
  /\ exitcode = NoExit
  /\ buckets = Buckets
  /\ script = "none"
  /\ workers = [w \in WorkerIds |-> IdleWorker]
  /\ widgets = [b \in Buckets |-> NoWidget]
  /\ autoq = NoAuto
  /\ uiops = 0

InitClient == InitSession /\ services = NoServices

\* Linux booted with the unit of one bucket enabled by an earlier run of
\* the client: systemd has started the unit, whose rclone serves the mount.
InitLinuxBooted ==
  /\ platform = Linux
  /\ winfsp = TRUE
  /\ \E base \in [Targets -> {Absent, UserDir, PlainFile}], b \in Buckets, ne \in BOOLEAN :
       /\ \A t \in DriveTargets : base[t] = Absent
       /\ fs = [base EXCEPT ![FolderOf(b)] = MountBy(b, 1, ne)]
       /\ helpers = [h \in HelperIds |->
                       IF h = 1
                       THEN [st |-> "serving", bucket |-> b, target |-> FolderOf(b)]
                       ELSE NoHelper]
       /\ services = [reg |-> {Unit(ServiceName(b), b, FolderOf(b), TRUE, 1)},
                      pending |-> {}]

NotElevated == admin = (platform # Windows)
AnyElevation == admin \in (IF platform = Windows THEN BOOLEAN ELSE {TRUE})

\* rclone and FUSE are installed, or either is missing.
Installed == fuse = TRUE /\ rclone = TRUE
AnyInstalled ==
  /\ rclone \in BOOLEAN
  /\ fuse \in (IF platform = Linux THEN BOOLEAN ELSE {TRUE})

InitMgr == (InitLinux \/ InitWindows) /\ InitClient /\ NotElevated /\ Installed

\* The manager on a machine where a prerequisite of mounting may be missing.
InitPre == (InitLinux \/ InitWindows) /\ InitClient /\ NotElevated /\ AnyInstalled

\* The manager on a machine whose mount points are directories under home.
InitDir == (InitLinux \/ InitWindowsFolders) /\ InitClient /\ NotElevated /\ Installed

\* The client window on a machine that has WinFsp.
Init ==
  (InitLinux \/ InitWindows) /\ winfsp = TRUE /\ InitClient /\ NotElevated /\ Installed

InitAlloc ==
  /\ (InitLinux \/ InitWindows \/ InitWindowsLeftover) /\ InitClient /\ NotElevated
  /\ Installed

\* The machine of the auto-mount registrations: fresh, or booted with a
\* unit enabled earlier.
InitAuto ==
  /\ \/ (InitLinux \/ InitWindows) /\ winfsp = TRUE /\ services = NoServices
     \/ InitLinuxBooted
  /\ InitSession
  /\ AnyElevation
  /\ Installed

\* --------------------------------------------------------------- the UI
\* BucketWidget.update_mount_status, for every widget
UpdateMountStatus(ws) ==
  [b \in Buckets |->
     IF ws[b].mount_point = NoTarget THEN ws[b]
     ELSE [ws[b] EXCEPT !.is_mounted = is_mounted(ws[b].mount_point)]]

\* HaioDriveClient.scan_existing_mounts: marks a widget mounted and then
\* calls update_mount_status, which re-derives the flag from is_mounted.
ScanExistingMounts(ws) == UpdateMountStatus(ws)

\* BucketWidget(...): the mount point is allocated, then update_mount_status
NewWidget(b) ==
  LET t == AllocateMountPoint(b)
  IN [mount_point |-> t, is_mounted |-> is_mounted(t)]

\* HaioDriveClient.display_buckets: every widget is built anew, which
\* allocates its mount point from the live OS state.
DisplayBuckets ==
  /\ LET built == [b \in Buckets |-> IF b \in buckets THEN NewWidget(b) ELSE NoWidget]
     IN widgets' = ScanExistingMounts(built)
  /\ uiops < MaxUiOps
  /\ uiops' = uiops + 1
  /\ UNCHANGED <<platform, winfsp, fuse, rclone, exitcode, buckets, script, fs, helpers, workers, services, autoq, admin>>

StartWorker(op, b, t) ==
  [IdleWorker EXCEPT !.op = op, !.bucket = b, !.target = t,
                     !.pc = IF op = "mount" THEN "prepare" ELSE "run"]

\* BucketWidget.toggle_mount, then HaioDriveClient.mount_bucket or
\* unmount_bucket: a MountWorker is created and started.
ToggleMount(b) ==
  /\ widgets[b].mount_point # NoTarget
  /\ IdleWorkers # {}
  /\ workers' = [workers EXCEPT ![FreeWorker] =
                   StartWorker(IF widgets[b].is_mounted THEN "unmount" ELSE "mount",
                               b, widgets[b].mount_point)]
  /\ uiops < MaxUiOps
  /\ uiops' = uiops + 1
  /\ UNCHANGED <<platform, winfsp, fuse, rclone, exitcode, buckets, script, fs, helpers, widgets, services, autoq, admin>>

\* ------------------------------------------------- RcloneManager.mount_bucket
Out(res, err, rec) == [res |-> res, err |-> err, rec |-> rec]

\* A variant of the preparation that empties a directory it finds in use
\* by the user and goes on to mount over it.
PrepareTargetClearing(t) ==
  LET r == fs[t] IN
  IF platform = Windows /\ IsDrive(t) THEN {Out("go", "none", r)}
  ELSE IF r.kind = "dir" /\ r.nonempty THEN {Out("go", "none", EmptyDir)}
  ELSE IF r.kind = "absent" THEN {Out("go", "none", EmptyDir)}
  ELSE {Out("fail", "error", r)}

\* Lines 577-627: the target is prepared.  "go" continues to the
\* already-mounted check; the record is what the OS has afterwards.
PrepareTarget(t) ==
  LET r == fs[t] IN
  IF platform = Windows /\ IsDrive(t) THEN {Out("go", "none", r)}
  ELSE IF platform = Windows
  THEN IF PathExistsAt(r)
       THEN IF IsDirAt(r)
            THEN IF ~ListdirOkAt(r) THEN {Out("fail", "error", r)}
                 ELSE IF ~r.nonempty
                 THEN \* os.rmdir, then os.makedirs; removing the directory
                      \* of a live mount either raises or drops the junction
                      IF r.kind = "dir" THEN {Out("go", "none", EmptyDir)}
                      ELSE {Out("fail", "error", r), Out("go", "none", EmptyDir)}
                 ELSE {Out("fail", "notempty", r)}
            ELSE {Out("fail", "isfile", r)}
       ELSE {Out("go", "none", EmptyDir)}
  ELSE IF PathExistsAt(r)
       THEN IF ~IsDirAt(r)
            THEN \* unmount_bucket says "Not currently mounted"; os.remove;
                 \* os.makedirs
                 {Out("go", "none", EmptyDir)}
            ELSE IF ~ListdirOkAt(r) THEN {Out("fail", "error", r)}
            ELSE IF r.nonempty
            THEN IF IsMountedAt(t, r) THEN {Out("ok", "already", r)}
                 ELSE {Out("fail", "notempty", r)}
            ELSE {Out("go", "none", r)}
       ELSE IF r.kind = "absent" THEN {Out("go", "none", EmptyDir)}
            ELSE \* os.makedirs: mkdir says EEXIST and isdir is false
                 {Out("fail", "error", r)}

\* Lines 629-641: already mounted, WinFsp, configuration test (rclone lsd)
CheckBeforeLaunch(t, o) ==
  IF o.res # "go" THEN {o}
  ELSE IF IsMountedAt(t, o.rec) THEN {Out("ok", "already", o.rec)}
  ELSE IF platform = Windows /\ ~winfsp THEN {Out("fail", "winfsp", o.rec)}
  ELSE IF ~rclone THEN {Out("fail", "config", o.rec)}       \* FileNotFoundError
  ELSE {Out("fail", "config", o.rec), Out("go", "none", o.rec)}

MountPrepare(t) == UNION {CheckBeforeLaunch(t, o) : o \in PrepareTarget(t)}

Finish(wk, res, err) == [wk EXCEPT !.pc = "done", !.result = res, !.err = err]

MountBegin(w) ==
  LET wk == workers[w] IN
  /\ wk.op = "mount" /\ wk.pc = "prepare"
  /\ \E o \in MountPrepare(wk.target) :
       /\ fs' = [fs EXCEPT ![wk.target] = o.rec]
       /\ workers' = [workers EXCEPT ![w] =
            IF o.res = "go"
            THEN [wk EXCEPT !.pc = "launch", !.healthyAtCall = is_mounted(wk.target)]
            ELSE Finish([wk EXCEPT !.healthyAtCall = is_mounted(wk.target)],
                        o.res, o.err)]
  /\ UNCHANGED <<platform, winfsp, fuse, rclone, exitcode, buckets, script, helpers, widgets, services, autoq, uiops, admin>>

\* Lines 698-710: Windows starts `rclone mount` in a background thread.
LaunchWindows(w) ==
  LET wk == workers[w] IN
  /\ platform = Windows
  /\ FreeHelpers # {}
  /\ helpers' = [helpers EXCEPT ![FreeHelper] =
                   [st |-> "starting", bucket |-> wk.bucket, target |-> wk.target]]
  /\ workers' = [workers EXCEPT ![w] =
                   [wk EXCEPT !.pc = "poll", !.launched = wk.launched + 1]]
  /\ UNCHANGED fs

\* Lines 725-750 and 752-755: `rclone mount --daemon` run to completion.
\* rc 0: the daemon serves the mount (over whatever was mounted there);
\* rc # 0: no daemon is left; TimeoutExpired: the daemon is left starting.
\* Without FUSE rclone is run and exits with rc # 0.
LaunchLinux(w) ==
  LET wk == workers[w]
      t == wk.target
      launchedWk == [wk EXCEPT !.launched = wk.launched + 1]
  IN
  /\ platform = Linux
  /\ \/ /\ FreeHelpers # {}
        /\ fuse
        /\ fs[t].kind \in {"dir", "mount"}
        /\ \E ne \in BOOLEAN : fs' = [fs EXCEPT ![t] = MountBy(wk.bucket, FreeHelper, ne)]
        /\ helpers' = [h \in HelperIds |->
                         IF h = FreeHelper
                         THEN [st |-> "serving", bucket |-> wk.bucket, target |-> t]
                         ELSE IF fs[t].kind = "mount" /\ fs[t].hid = h
                              THEN [helpers[h] EXCEPT !.st = "hidden"]
                              ELSE helpers[h]]
        /\ workers' = [workers EXCEPT ![w] = [launchedWk EXCEPT !.pc = "verify"]]
     \/ /\ workers' = [workers EXCEPT ![w] = Finish(launchedWk, "fail", "cmdfail")]
        /\ UNCHANGED <<fs, helpers>>
     \/ /\ FreeHelpers # {}
        /\ fuse
        /\ helpers' = [helpers EXCEPT ![FreeHelper] =
                         [st |-> "starting", bucket |-> wk.bucket, target |-> t]]
        /\ workers' = [workers EXCEPT ![w] = Finish(launchedWk, "fail", "cmdtimeout")]
        /\ UNCHANGED fs

MountLaunch(w) ==
  /\ workers[w].op = "mount" /\ workers[w].pc = "launch"
  /\ LaunchWindows(w) \/ LaunchLinux(w)
  /\ UNCHANGED <<platform, winfsp, fuse, rclone, exitcode, buckets, script, widgets, services, autoq, uiops, admin>>

\* Lines 713-723: the readiness loop, `for i in range(15)`: sleep 1, then
\* is_mounted.  The loop only reads; its outcome is that of its deciding
\* probe: the first that finds the target mounted (the k-th, k <= 15), or
\* the fifteenth when none did.  The step is taken at that probe.
MountPoll(w) ==
  LET wk == workers[w] IN
  /\ wk.op = "mount" /\ wk.pc = "poll"
  /\ \E k \in 1..MOUNT_POLLS :
       workers' = [workers EXCEPT ![w] =
         IF is_mounted(wk.target)
         THEN Finish([wk EXCEPT !.polls = k], "ok", "mounted")
         ELSE Finish([wk EXCEPT !.polls = MOUNT_POLLS], "fail", "timeout")]
  /\ UNCHANGED <<platform, winfsp, fuse, rclone, exitcode, buckets, script, fs, helpers, widgets, services, autoq, uiops, admin>>

\* Lines 733-742: sleep 2, then one is_mounted
MountVerify(w) ==
  LET wk == workers[w] IN
  /\ wk.op = "mount" /\ wk.pc = "verify"
  /\ workers' = [workers EXCEPT ![w] =
       IF is_mounted(wk.target) THEN Finish(wk, "ok", "mounted")
       ELSE Finish(wk, "fail", "inactive")]
  /\ UNCHANGED <<platform, winfsp, fuse, rclone, exitcode, buckets, script, fs, helpers, widgets, services, autoq, uiops, admin>>

\* HaioDriveClient.on_mount_finished
OnMountFinished(w) ==
  /\ workers[w].op = "mount" /\ workers[w].pc = "done"
  /\ workers' = [workers EXCEPT ![w] = IdleWorker]
  /\ widgets' = UpdateMountStatus(widgets)
  /\ UNCHANGED <<platform, winfsp, fuse, rclone, exitcode, buckets, script, fs, helpers, services, autoq, uiops, admin>>

\* ---------------------------------------------------- the helper processes
\* What is at a target once the mount on top of it is gone: a mount
\* hidden underneath shows again, else the bare mount point.
Underneath(t, hs) ==
  LET hidden == {h \in HelperIds : hs[h].st = "hidden" /\ hs[h].target = t} IN
  IF hidden = {} THEN (IF IsDrive(t) THEN Absent ELSE EmptyDir)
  ELSE LET h == CHOOSE k \in hidden : \A j \in hidden : k <= j
       IN MountBy(hs[h].bucket, h, TRUE)

Resurface(t, hs) ==
  LET hidden == {h \in HelperIds : hs[h].st = "hidden" /\ hs[h].target = t} IN
  IF hidden = {} THEN hs
  ELSE LET h == CHOOSE k \in hidden : \A j \in hidden : k <= j
       IN [hs EXCEPT ![h].st = "serving"]

\* A started rclone gets its mount up.  On Windows it needs the letter to
\* be free (or the folder to be a plain directory or absent).
HelperReady(h) ==
  LET t == helpers[h].target IN
  /\ helpers[h].st = "starting"
  /\ IF platform = Windows
     THEN fs[t].kind \in {"absent", "dir"} /\ (fs[t].kind = "dir" => ~IsDrive(t))
     ELSE fs[t].kind \in {"dir", "mount"}
  /\ \E ne \in BOOLEAN :
       /\ IsDrive(t) => ne
       /\ fs' = [fs EXCEPT ![t] = MountBy(helpers[h].bucket, h, ne)]
  /\ helpers' = [k \in HelperIds |->
                   IF k = h THEN [helpers[h] EXCEPT !.st = "serving"]
                   ELSE IF fs[t].kind = "mount" /\ fs[t].hid = k
                        THEN [helpers[k] EXCEPT !.st = "hidden"]
                        ELSE helpers[k]]
  /\ UNCHANGED <<platform, winfsp, fuse, rclone, exitcode, buckets, script, workers, widgets, services, autoq, uiops, admin>>

\* A started rclone gives up (letter taken, network, credentials).
HelperExit(h) ==
  /\ helpers[h].st = "starting"
  /\ helpers' = [helpers EXCEPT ![h] = NoHelper]
  /\ UNCHANGED <<platform, winfsp, fuse, rclone, exitcode, buckets, script, fs, workers, widgets, services, autoq, uiops, admin>>

\* A serving rclone dies.  Linux keeps the mount-table entry, which then
\* answers ENOTCONN; Windows drops the drive or the junction.
HelperDie(h) ==
  LET t == helpers[h].target IN
  /\ helpers[h].st = "serving"
  /\ helpers' = [helpers EXCEPT ![h] = NoHelper]
  /\ fs' = IF fs[t].kind = "mount" /\ fs[t].hid = h
           THEN IF platform = Windows THEN [fs EXCEPT ![t] = Absent]
                ELSE [fs EXCEPT ![t].health = "dead", ![t].hid = 0]
           ELSE fs
  /\ UNCHANGED <<platform, winfsp, fuse, rclone, exitcode, buckets, script, workers, widgets, services, autoq, uiops, admin>>

\* The storage backend stops answering: the mount stays, listings fail.
BackendError(t) ==
  /\ fs[t].kind = "mount" /\ fs[t].health = "ok"
  /\ fs' = [fs EXCEPT ![t].health = "ioerr"]
  /\ UNCHANGED <<platform, winfsp, fuse, rclone, exitcode, buckets, script, helpers, workers, widgets, services, autoq, uiops, admin>>

\* The rclone of a mount stops answering (stopped, deadlocked, waiting on
\* its backend): a stat or a listing of the mount does not return.
BackendHang(t) ==
  /\ fs[t].kind = "mount" /\ fs[t].health = "ok"
  /\ fs' = [fs EXCEPT ![t].health = "hung"]
  /\ UNCHANGED <<platform, winfsp, fuse, rclone, exitcode, buckets, script, helpers, workers, widgets, services, autoq, uiops, admin>>

\* ----------------------------------------------- RcloneManager.unmount_bucket
UOut(res, err, cmds, gone, rec) ==
  [res |-> res, err |-> err, cmds |-> cmds, gone |-> gone, rec |-> rec]

PlainCommands == <<"fusermount -u", "fusermount3 -u", "umount">>
RetryCommands == <<"fusermount -u again", "umount again">>

\* A variant of the Linux ladder whose final failure has nevertheless
\* detached the mount: the busy error is returned for a target that the
\* last `umount -l` took out of the mount table.
UnmountLinuxDetachingOnFailure(t) ==
  LET top == IF fs[t].hid = 0 THEN {} ELSE {fs[t].hid}
      hs == [h \in HelperIds |-> IF h \in top THEN NoHelper ELSE helpers[h]]
      below == Underneath(t, hs)
      busyA == PlainCommands \o <<"lsof", "pkill">>
      busyB == PlainCommands \o <<"lsof">>
  IN
  {UOut("ok", "unmounted", SubSeq(PlainCommands, 1, k), top, below) : k \in 1..3}
  \cup {UOut("ok", "closed", busyA \o SubSeq(RetryCommands, 1, k), top, below) : k \in 1..2}
  \cup {UOut("ok", "lazy", pre \o <<"umount -l">>, top, below) :
          pre \in {busyA \o RetryCommands, busyB}}
  \cup {UOut("fail", "busy", pre \o <<"umount -l">>, top, below) :
          pre \in {busyA \o RetryCommands, busyB}}

\* A variant of the Linux ladder that goes on to the process-closing
\* step after a plain command has succeeded.
UnmountLinuxClosingAnyway(f, hs0, t) ==
  LET top == IF f[t].hid = 0 THEN {} ELSE {f[t].hid}
      hs == [h \in HelperIds |-> IF h \in top THEN NoHelper ELSE hs0[h]]
      below == Underneath(t, hs)
      busyA == PlainCommands \o <<"lsof", "pkill">>
      busyB == PlainCommands \o <<"lsof">>
  IN
  {UOut("ok", "unmounted", SubSeq(PlainCommands, 1, k) \o <<"lsof", "pkill">>, top, below) :
     k \in 1..3}
  \cup {UOut("ok", "closed", busyA \o SubSeq(RetryCommands, 1, k), top, below) : k \in 1..2}
  \cup {UOut("ok", "lazy", pre \o <<"umount -l">>, top, below) :
          pre \in {busyA \o RetryCommands, busyB}}
  \cup {UOut("fail", "busy", pre \o <<"umount -l">>, {}, f[t]) :
          pre \in {busyA \o RetryCommands, busyB}}

\* Lines 776-803 and _handle_busy_unmount: each command of the ladder
\* succeeds or fails as the OS decides.  A success detaches the mount on
\* top of the target and its rclone exits.  f and hs are what the OS has
\* at the targets and the rclone processes when the call is made.
UnmountLinuxIn(f, hs0, t) ==
  LET top == IF f[t].hid = 0 THEN {} ELSE {f[t].hid}
      hs == [h \in HelperIds |-> IF h \in top THEN NoHelper ELSE hs0[h]]
      below == Underneath(t, hs)
      busyA == PlainCommands \o <<"lsof", "pkill">>
      busyB == PlainCommands \o <<"lsof">>
  IN
  {UOut("ok", "unmounted", SubSeq(PlainCommands, 1, k), top, below) : k \in 1..3}
  \cup {UOut("ok", "closed", busyA \o SubSeq(RetryCommands, 1, k), top, below) : k \in 1..2}
  \cup {UOut("ok", "lazy", pre \o <<"umount -l">>, top, below) :
          pre \in {busyA \o RetryCommands, busyB}}
  \cup {UOut("fail", "busy", pre \o <<"umount -l">>, {}, f[t]) :
          pre \in {busyA \o RetryCommands, busyB}}

UnmountLinux(t) ==
  UnmountLinuxIn(fs, helpers, t)

\* _unmount_windows_drive with _kill_rclone_for_mount: PowerShell lookup of
\* the rclone bound to the drive letter, WMIC lookup, `net use /delete`.
UnmountWindowsIn(f, hs0, t) ==
  LET bound == {h \in HelperIds : hs0[h].st # "free" /\ hs0[h].target = t}
      after(rec, killed) ==
        IF killed # {} /\ rec.kind = "mount" /\ rec.hid \in killed THEN Absent ELSE rec
      run(psok, wmicok, netok) ==
        LET k1 == IF psok /\ IsDrive(t) THEN bound ELSE {}
            rec1 == after(f[t], k1)
            c1 == IF k1 # {} THEN <<"powershell", "taskkill">> ELSE <<"powershell">>
            k2 == IF wmicok THEN bound \ k1 ELSE {}
            rec2 == after(rec1, k2)
            c2 == c1 \o (IF k2 # {} THEN <<"wmic", "taskkill">> ELSE <<"wmic">>)
        IN IF k1 # {} /\ ~IsMountedAt(t, rec1)
           THEN UOut("ok", "killed", c1, k1, rec1)
           ELSE IF k2 # {} /\ ~IsMountedAt(t, rec2)
           THEN UOut("ok", "killed", c2, k1 \cup k2, rec2)
           ELSE IF netok /\ rec2.kind = "volume"
           THEN UOut("ok", "netuse", c2 \o <<"net use">>, k1 \cup k2, Absent)
           ELSE UOut("fail", "busy", c2 \o <<"net use">>, k1 \cup k2, rec2)
  IN {run(p, q, n) : p \in BOOLEAN, q \in BOOLEAN, n \in BOOLEAN}

UnmountWindows(t) ==
  UnmountWindowsIn(fs, helpers, t)

\* A variant of unmount_bucket without its two early returns: the unmount
\* commands are run whatever is at the target.
UnmountWithoutEarlyReturn(t) ==
  IF platform = Linux THEN UnmountLinux(t) ELSE UnmountWindows(t)

\* RcloneManager.unmount_bucket
UnmountOutcomesIn(f, hs, t) ==
  IF ~PathExistsAt(f[t]) THEN {UOut("ok", "absent", <<>>, {}, f[t])}
  ELSE IF ~IsMountedAt(t, f[t]) THEN {UOut("ok", "notmounted", <<>>, {}, f[t])}
  ELSE IF platform = Linux THEN UnmountLinuxIn(f, hs, t)
  ELSE UnmountWindowsIn(f, hs, t)

UnmountOutcomes(t) ==
  IF ~PathExists(t) THEN {UOut("ok", "absent", <<>>, {}, fs[t])}
  ELSE IF ~is_mounted(t) THEN {UOut("ok", "notmounted", <<>>, {}, fs[t])}
  ELSE IF platform = Linux THEN UnmountLinux(t)
  ELSE UnmountWindows(t)

\* What an unmount_bucket call with outcome o leaves: the OS record of
\* the target, and the rclone processes without those that are gone.
AfterUnmount(f, hs0, t, o) ==
  LET hs == [h \in HelperIds |-> IF h \in o.gone THEN NoHelper ELSE hs0[h]]
  IN [fs |-> [f EXCEPT ![t] = o.rec],
      helpers |-> IF o.rec = f[t] THEN hs ELSE Resurface(t, hs)]

UnmountRun(w) ==
  LET wk == workers[w] IN
  /\ wk.op = "unmount" /\ wk.pc = "run"
  /\ \E o \in UnmountOutcomes(wk.target) :
       /\ fs' = [fs EXCEPT ![wk.target] = o.rec]
       /\ helpers' =
            LET hs == [h \in HelperIds |-> IF h \in o.gone THEN NoHelper ELSE helpers[h]]
            IN IF o.rec = fs[wk.target] THEN hs ELSE Resurface(wk.target, hs)
       /\ workers' = [workers EXCEPT ![w] =
            Finish([wk EXCEPT !.cmds = o.cmds, !.healthyAtCall = is_mounted(wk.target)],
                   o.res, o.err)]
  /\ UNCHANGED <<platform, winfsp, fuse, rclone, exitcode, buckets, script, widgets, services, autoq, uiops, admin>>

\* The first widget, in display order, whose flag says mounted
FirstMounted ==
  LET ix == {i \in 1..NumBuckets : widgets[BucketNames[i]].is_mounted} IN
  IF ix = {} THEN "" ELSE BucketNames[CHOOSE i \in ix : \A j \in ix : i <= j]

\* HaioDriveClient.on_unmount_finished; after a "busy" failure the help
\* dialog offers Retry, which unmounts the first widget flagged mounted.
OnUnmountFinished(w) ==
  LET wk == workers[w] IN
  /\ wk.op = "unmount" /\ wk.pc = "done"
  /\ \/ /\ workers' = [workers EXCEPT ![w] = IdleWorker]
        /\ UNCHANGED uiops
     \/ /\ wk.result = "fail" /\ wk.err = "busy"
        /\ FirstMounted # ""
        /\ uiops < MaxUiOps
        /\ uiops' = uiops + 1
        /\ workers' = [workers EXCEPT ![w] =
                         StartWorker("unmount", FirstMounted,
                                     widgets[FirstMounted].mount_point)]
  /\ widgets' = UpdateMountStatus(widgets)
  /\ UNCHANGED <<platform, winfsp, fuse, rclone, exitcode, buckets, script, fs, helpers, services, autoq, admin>>

\* ------------------------------------------------- AutoMountServiceManager
\* services.reg: the unit files in the service directory (Linux) or the
\* tasks of the Task Scheduler (Windows).  An entry has the `name` it is
\* stored under, the `bucket` and `mount_point` written into it, whether
\* it is `enabled`, and `active`, the rclone the unit is running (0: none).
\* services.pending: the commands handed to an elevated PowerShell by
\* ShellExecuteW that have not run yet.
RegAt(reg, name) == {e \in reg : e.name = name}

\* A variant of the registry in which a new entry is kept beside what is
\* stored under its name instead of replacing it.
PutBeside(reg, e) == reg \cup {e}

\* A file moved onto a path, a task registered with -Force: what was
\* stored under the name is replaced.
Put(reg, e) ==
  {x \in reg : x.name # e.name} \cup {e}

\* `rm -f` of the unit file, `schtasks /Delete`
Drop(reg, name) == {x \in reg : x.name # name}

\* The outcome of a create or remove call: the result, the registry and
\* the pending commands afterwards, how the request for credentials or
\* elevation went ("none": nothing was asked, "refused", "granted", or
\* "oserror": granted, and a command failed for a reason of the machine),
\* and the rclone processes the call stopped.
AOut(res, reg, pending, auth, stopped) ==
  [res |-> res, reg |-> reg, pending |-> pending, auth |-> auth, stopped |-> stopped]

\* RcloneManager.is_systemd_service_enabled
is_systemd_service_enabled(b) ==
  IF platform # Linux THEN FALSE
  ELSE IF RegAt(services.reg, ServiceName(b)) = {} THEN FALSE
  ELSE \E e \in RegAt(services.reg, ServiceName(b)) : e.enabled

\* RcloneManager.is_windows_startup_task_enabled: `schtasks /Query` exits 0
is_windows_startup_task_enabled(b) ==
  IF platform # Windows THEN FALSE ELSE RegAt(services.reg, TaskName(b)) # {}

\* RcloneManager.is_auto_mount_service_enabled
is_auto_mount_service_enabled(b) ==
  IF platform = Linux THEN is_systemd_service_enabled(b)
  ELSE is_windows_startup_task_enabled(b)

\* RcloneManager.create_systemd_service: password dialog, then `mv` of the
\* unit file, `systemctl daemon-reload`, `systemctl enable`; the first
\* command that fails ends the call with False.  A unit that is running
\* goes on running.
create_systemd_service(b, t) ==
  LET reg == services.reg
      old == RegAt(reg, ServiceName(b))
      wasEnabled == \E e \in old : e.enabled
      act == IF old = {} THEN 0 ELSE (CHOOSE e \in old : TRUE).active
      moved(en) == Put(reg, Unit(ServiceName(b), b, t, en, act))
  IN {AOut("fail", reg, services.pending, "refused", {}),      \* cancelled, wrong password
      AOut("fail", reg, services.pending, "oserror", {}),      \* mv failed
      AOut("fail", moved(wasEnabled), services.pending, "oserror", {}),  \* reload, enable failed
      AOut("ok", moved(TRUE), services.pending, "granted", {})}

\* RcloneManager._run_as_admin: the user's answer, then ShellExecuteW
\* "runas", which returns as soon as the elevated process is started.
RunAsAdmin == {"declined", "failed", "started"}

\* The command of a pending elevated PowerShell
Command(kind, name, b, t) == [kind |-> kind, name |-> name, bucket |-> b, mount_point |-> t]

\* RcloneManager.create_windows_startup_task
create_windows_startup_task(b, t) ==
  LET reg == services.reg
      pend == services.pending
  IN IF ~admin
     THEN {IF a = "started"
           THEN AOut("ok", reg, pend \cup {Command("create", TaskName(b), b, t)}, "granted", {})
           ELSE AOut("fail", reg, pend, "refused", {}) : a \in RunAsAdmin}
     ELSE {AOut("ok", Put(reg, Unit(TaskName(b), b, t, TRUE, 0)), pend, "none", {}),
           AOut("fail", reg, pend, "oserror", {})}

\* What `systemctl disable` says of a unit file that is not there: older
\* systemd "No such file or directory", newer "Unit file ... does not
\* exist".
DisableAbsentMessages == {"No such file", "does not exist"}

\* The test of lines 1231-1233 on the stderr of a failed command
Tolerated(stderr) == stderr \in {"No such file", "not loaded"}

\* RcloneManager.remove_systemd_service: password dialog, then disable,
\* stop, rm -f, daemon-reload, each run whatever the one before returned;
\* True when none failed other than with a tolerated message.  `stop`
\* of a running unit ends its rclone and runs ExecStop, the unmount.
remove_systemd_service(b) ==
  LET reg == services.reg
      pend == services.pending
      old == RegAt(reg, ServiceName(b))
      running == {e.active : e \in old} \ {0}
      after(d, st, rm) ==
        IF rm THEN Drop(reg, ServiceName(b))
        ELSE {[e EXCEPT !.enabled = IF d /\ e.name = ServiceName(b) THEN FALSE ELSE e.enabled,
                        !.active = IF st /\ e.name = ServiceName(b) THEN 0 ELSE e.active]
                : e \in reg}
      partial == {AOut("fail", after(d, st, rm), pend, "oserror", IF st THEN running ELSE {}) :
                    d \in BOOLEAN, st \in BOOLEAN, rm \in BOOLEAN}
  IN {AOut("fail", reg, pend, "refused", {})}               \* cancelled, wrong password
     \cup partial
     \cup IF old # {}
          THEN {AOut("ok", Drop(reg, ServiceName(b)), pend, "granted", running)}
          ELSE {AOut(IF Tolerated(m) THEN "ok" ELSE "fail", reg, pend, "granted", {}) :
                  m \in DisableAbsentMessages}

\* RcloneManager.remove_windows_startup_task: `schtasks /Delete /F`; when
\* a client that is not elevated is denied access, the same command is
\* handed to _run_as_admin; "cannot find" counts as removed.
remove_windows_startup_task(b) ==
  LET reg == services.reg
      pend == services.pending
      deleted == AOut("ok", Drop(reg, TaskName(b)), pend, "none", {})
      failed == AOut("fail", reg, pend, "oserror", {})
      elevated == {IF a = "started"
                   THEN AOut("ok", reg, pend \cup {Command("delete", TaskName(b), b, NoTarget)},
                             "granted", {})
                   ELSE AOut("fail", reg, pend, "refused", {}) : a \in RunAsAdmin}
  IN IF RegAt(reg, TaskName(b)) = {} THEN {AOut("ok", reg, pend, "none", {})}
     ELSE IF admin THEN {deleted, failed}
     ELSE {deleted, failed} \cup elevated

\* The mount points a caller passes for a bucket
MountPointsFor(b) ==
  IF platform = Linux THEN {FolderOf(b)}
  ELSE DriveTargets \cup {DriveOf(LowLetterList[i]) : i \in DOMAIN LowLetterList}
         \cup {FolderOf(b)}

\* RcloneManager.create_auto_mount_service
CreateAutoMountService(b, t) ==
  /\ t \in MountPointsFor(b)
  /\ \E o \in (IF platform = Linux THEN create_systemd_service(b, t)
                ELSE create_windows_startup_task(b, t)) :
       /\ Cardinality(o.pending) <= MaxPending
       /\ services' = [reg |-> o.reg, pending |-> o.pending]
       /\ autoq' = [bucket |-> b, want |-> TRUE, result |-> o.res, auth |-> o.auth,
                    before |-> is_auto_mount_service_enabled(b)]
  /\ UNCHANGED <<platform, winfsp, fuse, rclone, exitcode, buckets, script, fs, helpers, workers, widgets, uiops, admin>>

\* RcloneManager.remove_auto_mount_service.  The rclone of a stopped unit
\* is gone and its mount with it.
RemoveAutoMountService(b) ==
  /\ \E o \in (IF platform = Linux THEN remove_systemd_service(b)
                ELSE remove_windows_startup_task(b)) :
       /\ Cardinality(o.pending) <= MaxPending
       /\ services' = [reg |-> o.reg, pending |-> o.pending]
       /\ autoq' = [bucket |-> b, want |-> FALSE, result |-> o.res, auth |-> o.auth,
                    before |-> is_auto_mount_service_enabled(b)]
       /\ LET hs == [h \in HelperIds |-> IF h \in o.stopped THEN NoHelper ELSE helpers[h]]
              onTop(t) == fs[t].kind = "mount" /\ fs[t].hid \in o.stopped
          IN /\ fs' = [t \in Targets |-> IF onTop(t) THEN Underneath(t, hs) ELSE fs[t]]
             /\ helpers' = [h \in HelperIds |->
                              IF hs[h].st = "hidden" /\ onTop(hs[h].target)
                                 /\ fs'[hs[h].target].hid = h
                              THEN [hs[h] EXCEPT !.st = "serving"]
                              ELSE hs[h]]
  /\ UNCHANGED <<platform, winfsp, fuse, rclone, exitcode, buckets, script, workers, widgets, uiops, admin>>

\* An elevated PowerShell runs its command: the task is registered or
\* deleted, or the command fails.
ElevatedRun(c) ==
  /\ c \in services.pending
  /\ \E done \in BOOLEAN :
       services' =
         [reg |-> IF ~done THEN services.reg
                  ELSE IF c.kind = "create"
                  THEN Put(services.reg, Unit(c.name, c.bucket, c.mount_point, TRUE, 0))
                  ELSE Drop(services.reg, c.name),
          pending |-> services.pending \ {c}]
  /\ UNCHANGED <<platform, winfsp, fuse, rclone, exitcode, buckets, script, fs, helpers, workers, widgets, autoq, uiops, admin>>

\* ------------------------------------------------ the auto-mount checkbox
\* available_drives of toggle_auto_mount: the letters from 'D' on for which
\* os.path.exists(f"{d}:") is false, in alphabetical order.  The drives
\* before the pool are the machine's own; lowUsed are those that exist.
ToggleAvailableDrives(f, lowUsed) ==
  SelectSeq(LowLetterList, LAMBDA d : d \notin lowUsed)
    \o SelectSeq(Letters, LAMBDA d : ~PathExistsAt(f[DriveOf(d)]))

\* The mount point toggle_auto_mount computes for a bucket
ToggleMountPoint(f, b, lowUsed) ==
  IF platform = Windows
  THEN LET available == ToggleAvailableDrives(f, lowUsed)
       IN IF available # <<>> THEN DriveOf(available[1]) ELSE FolderOf(b)
  ELSE FolderOf(b)

\* HaioDriveClient.toggle_auto_mount, the slot of a widget's checkbox: the
\* registration is created for the mount point computed here, or removed;
\* the result goes to the status bar only.
ToggleAutoMount(b, enabled, lowUsed) ==
  /\ widgets[b].mount_point # NoTarget
  /\ IF enabled
     THEN CreateAutoMountService(b, ToggleMountPoint(fs, b, lowUsed))
     ELSE lowUsed = {} /\ RemoveAutoMountService(b)

\* ------------------------------------------------ the end of a session
\* What is left when the rclone processes in `stopped` are gone: each mount
\* they served is off its target.
AfterStop(f, hs0, stopped) ==
  LET hs == [h \in HelperIds |-> IF h \in stopped THEN NoHelper ELSE hs0[h]]
      onTop(t) == f[t].kind = "mount" /\ f[t].hid \in stopped
      f2 == [t \in Targets |-> IF onTop(t) THEN Underneath(t, hs) ELSE f[t]]
  IN [fs |-> f2,
      helpers |-> [h \in HelperIds |->
                     IF hs[h].st = "hidden" /\ onTop(hs[h].target)
                        /\ f2[hs[h].target].hid = h
                     THEN [hs[h] EXCEPT !.st = "serving"]
                     ELSE hs[h]]]

\* display_buckets on the machine f for the listing bs: a widget for
\* every bucket listed, its mount point allocated and its flag probed.
BuildWidgets(f, bs) ==
  [b \in Buckets |->
     IF b \in bs
     THEN LET t == AllocateIn(f, b)
          IN [mount_point |-> t, is_mounted |-> IsMountedAt(t, f[t])]
     ELSE NoWidget]

\* The widgets whose flag says mounted, in display order
MountedWidgets ==
  SelectSeq(SubSeq(BucketNames, 1, NumBuckets), LAMBDA b : widgets[b].is_mounted)

\* `for widget in self.bucket_widgets: if widget.is_mounted:
\* unmount_bucket(widget.mount_point)`: the calls one after the other, the
\* result of each ignored.  S is the set of machines reached so far.
RECURSIVE UnmountEach(_, _)
UnmountEach(S, bs) ==
  IF bs = <<>> THEN S
  ELSE LET t == widgets[Head(bs)].mount_point
       IN UnmountEach(UNION {{AfterUnmount(m.fs, m.helpers, t, o) :
                                o \in UnmountOutcomesIn(m.fs, m.helpers, t)} : m \in S},
                      Tail(bs))

\* HaioDriveClient.logout: the flagged widgets are unmounted, then the
\* user, the listing and the widgets are cleared.
Logout ==
  /\ buckets # {}
  /\ \E m \in UnmountEach({[fs |-> fs, helpers |-> helpers]}, MountedWidgets) :
       fs' = m.fs /\ helpers' = m.helpers
  /\ buckets' = {}
  /\ widgets' = BuildWidgets(fs', {})
  /\ uiops < MaxUiOps
  /\ uiops' = uiops + 1
  /\ UNCHANGED <<platform, winfsp, fuse, rclone, exitcode, script, workers, services, autoq, admin>>

\* HaioDriveClient.sync_bucket_stats when the listing of the API no longer
\* has bucket b, which has a widget: the widget's mount point is unmounted
\* if its flag says mounted, the auto-mount registration is removed if
\* there is one, and load_buckets rebuilds the widgets from the listing.
SyncBucketStats(b) ==
  /\ b \in buckets
  /\ widgets[b].mount_point # NoTarget
  /\ \E m \in (IF widgets[b].is_mounted
                THEN UnmountEach({[fs |-> fs, helpers |-> helpers]}, <<b>>)
                ELSE {[fs |-> fs, helpers |-> helpers]}) :
       IF is_auto_mount_service_enabled(b)
       THEN \E o \in (IF platform = Linux THEN remove_systemd_service(b)
                      ELSE remove_windows_startup_task(b)) :
              /\ Cardinality(o.pending) <= MaxPending
              /\ services' = [reg |-> o.reg, pending |-> o.pending]
              /\ autoq' = [bucket |-> b, want |-> FALSE, result |-> o.res, auth |-> o.auth,
                           before |-> TRUE]
              /\ LET m2 == AfterStop(m.fs, m.helpers, o.stopped)
                 IN fs' = m2.fs /\ helpers' = m2.helpers
       ELSE /\ fs' = m.fs /\ helpers' = m.helpers
            /\ UNCHANGED <<services, autoq>>
  /\ buckets' = buckets \ {b}
  /\ widgets' = BuildWidgets(fs', buckets')
  /\ uiops < MaxUiOps
  /\ uiops' = uiops + 1
  /\ UNCHANGED <<platform, winfsp, fuse, rclone, exitcode, script, workers, admin>>

\* ------------------------------------- scripts/cleanup_stale_mounts.py
\* str(e).lower() of the OSError that os.listdir raises, "" when the
\* listing returns
ListdirErrorAt(r) ==
  IF r.kind = "absent" THEN "no such file or directory"
  ELSE IF r.health = "dead" THEN "transport endpoint is not connected"
  ELSE IF r.kind = "file" THEN "not a directory"
  ELSE IF r.health = "ioerr" THEN "input/output error"
  ELSE ""

\* is_stale_mount of the script, on what the OS has at the target
ScriptIsStaleMountAt(r) ==
  LET error_msg == ListdirErrorAt(r) IN
  IF error_msg = "" THEN FALSE
  ELSE IF error_msg = "transport endpoint is not connected" THEN TRUE
  ELSE IF error_msg = "not a directory" THEN TRUE
  ELSE IF error_msg = "no such file or directory" THEN FALSE
  ELSE TRUE

script_is_stale_mount(t) == ScriptIsStaleMountAt(fs[t])

COut(res, rec, gone) == [res |-> res, rec |-> rec, gone |-> gone]

\* Step 2 of cleanup_stale_mount on what the unmount step left: rmdir of
\* a directory that lists empty, os.remove of what is not a directory.
RemoveMountPoint(r, gone) ==
  IF IsDirAt(r)
  THEN IF ~ListdirOkAt(r) THEN COut("error", r, gone)
       ELSE IF ~r.nonempty
       THEN IF r.kind = "dir" THEN COut("ok", Absent, gone)
            ELSE COut("error", r, gone)                 \* rmdir of a mount: EBUSY
       ELSE COut("notempty", r, gone)
  ELSE IF r.kind = "file" THEN COut("ok", Absent, gone)
       ELSE COut("error", r, gone)                      \* os.remove raises

\* cleanup_stale_mount(mount_point, force): the four lazy unmount commands
\* until one exits 0 (none does when there is no mount), then step 2.
cleanup_stale_mount(t, force) ==
  LET r == fs[t]
      top == IF r.hid = 0 THEN {} ELSE {r.hid}
      hs == [h \in HelperIds |-> IF h \in top THEN NoHelper ELSE helpers[h]]
  IN IF ~ScriptIsStaleMountAt(r) /\ ~force THEN {COut("notstale", r, {})}
     ELSE {RemoveMountPoint(r, {})}
          \cup IF r.kind = "mount" THEN {RemoveMountPoint(Underneath(t, hs), top)} ELSE {}

\* The script run for one mount point under home
CleanupStaleMount(t, force) ==
  /\ platform = Linux
  /\ t \in FolderTargets
  /\ \E o \in cleanup_stale_mount(t, force) :
       /\ script' = o.res
       /\ fs' = [fs EXCEPT ![t] = o.rec]
       /\ helpers' =
            LET hs == [h \in HelperIds |-> IF h \in o.gone THEN NoHelper ELSE helpers[h]]
            IN IF o.rec.kind = "mount" /\ o.rec # fs[t] THEN Resurface(t, hs) ELSE hs
  /\ UNCHANGED <<platform, winfsp, fuse, rclone, exitcode, buckets, workers, widgets, services, autoq, uiops, admin>>

\* ------------------------------------------------ direct callers of the API
\* RcloneManager.mount_bucket called by a caller that waits for the result
\* (MountWorker.run).
CallMount(b, t) ==
  /\ IdleWorkers = WorkerIds
  /\ IF platform = Linux THEN t = FolderOf(b) ELSE t \in DriveTargets \cup {FolderOf(b)}
  /\ workers' = [workers EXCEPT ![1] = StartWorker("mount", b, t)]
  /\ UNCHANGED <<platform, winfsp, fuse, rclone, exitcode, buckets, script, fs, helpers, widgets, services, autoq, uiops, admin>>

CallUnmount(b, t) ==
  /\ IdleWorkers = WorkerIds
  /\ IF platform = Linux THEN t = FolderOf(b) ELSE t \in DriveTargets \cup {FolderOf(b)}
  /\ workers' = [workers EXCEPT ![1] = StartWorker("unmount", b, t)]
  /\ UNCHANGED <<platform, winfsp, fuse, rclone, exitcode, buckets, script, fs, helpers, widgets, services, autoq, uiops, admin>>

\* The call has returned and the caller has read the result.
Return(w) ==
  /\ workers[w].pc = "done"
  /\ workers' = [workers EXCEPT ![w] = IdleWorker]
  /\ UNCHANGED <<platform, winfsp, fuse, rclone, exitcode, buckets, script, fs, helpers, widgets, services, autoq, uiops, admin>>

\* ------------------------------------------------ the headless entry point
\* The classes defined at module level that main() could name: the API
\* client is ApiClient; no HaioAPI is defined or imported anywhere.
ModuleNames == {"ApiClient", "RcloneManager", "TokenManager"}

\* main() in --auto-mount mode up to the construction of the API client:
\* `given` is that --username, --bucket and --mount-point are all there,
\* `saved` that load_token and get_password both returned something.
\* `api = HaioAPI()` raises NameError, which the handler around the whole
\* flow turns into 1; authenticate, the WinFsp check and mount_bucket come
\* after that statement.
MainExit(given, saved) ==
  IF ~given THEN 2
  ELSE IF ~saved THEN 3
  ELSE IF "HaioAPI" \notin ModuleNames THEN 1
  ELSE NoExit

\* One run of main() --auto-mount --username u --bucket b --mount-point t
\* (b and t are what `given` says is there).
Main(b, t, given, saved) ==
  /\ exitcode = NoExit
  /\ MainExit(given, saved) # NoExit
  /\ exitcode' = MainExit(given, saved)
  /\ UNCHANGED <<platform, winfsp, fuse, rclone, buckets, script, fs, helpers, workers, widgets, services, autoq, uiops, admin>>

\* ----------------------------------------------------------- specifications
WorkerStep(w) ==
  \/ MountBegin(w)
  \/ MountLaunch(w)
  \/ MountPoll(w)
  \/ MountVerify(w)
  \/ UnmountRun(w)

\* A started rclone comes up or gives up.
HelperStartup ==
  \/ \E h \in HelperIds : HelperReady(h)
  \/ \E h \in HelperIds : HelperExit(h)

\* A serving rclone or its backend fails.
HelperFault ==
  \/ \E h \in HelperIds : HelperDie(h)
  \/ \E t \in Targets : BackendError(t)

\* The manager under one caller at a time, on a machine where helpers
\* and the backend can fail at any moment.
NextMgr ==
  \/ \E b \in Buckets, t \in Targets : CallMount(b, t)
  \/ \E b \in Buckets, t \in Targets : CallUnmount(b, t)
  \/ \E w \in WorkerIds : WorkerStep(w)
  \/ \E w \in WorkerIds : Return(w)
  \/ HelperStartup
  \/ HelperFault

SpecMgr == InitMgr /\ [][NextMgr]_vars

\* The same on a machine whose mount points are directories.
SpecDir == InitDir /\ [][NextMgr]_vars

\* The same on a machine where rclone or FUSE may be missing.
SpecPre == InitPre /\ [][NextMgr]_vars

\* The next thing the call does is read its target, by a call that has no
\* timeout: os.path.exists (lines 583, 596, 766), os.listdir (lines 1011,
\* 1042), `mountpoint -q` (line 1053).  On a mount that does not answer
\* the call does not return.
Waits(w) ==
  /\ workers[w].pc \in {"prepare", "poll", "verify", "run"}
  /\ fs[workers[w].target].health = "hung"

\* A step of a call that is not waiting
CallStep(w) == ~Waits(w) /\ WorkerStep(w)

\* A mount_bucket call made while the process table of the model has room
\* for the rclone it may start
CallMountWithRoom(b, t) == FreeHelpers # {} /\ CallMount(b, t)

\* The manager under one caller at a time, on a machine where a mount can
\* stop answering.
NextLive ==
  \/ \E b \in Buckets, t \in Targets : CallMountWithRoom(b, t)
  \/ \E b \in Buckets, t \in Targets : CallUnmount(b, t)
  \/ \E w \in WorkerIds : CallStep(w)
  \/ \E w \in WorkerIds : Return(w)
  \/ HelperStartup
  \/ \E t \in Targets : BackendHang(t)

\* The thread of a call runs whenever it can take a step.
SpecLive ==
  InitMgr /\ [][NextLive]_vars /\ \A w \in WorkerIds : WF_vars(CallStep(w))

\* The manager with the cleanup script run beside it (the script's
\* commands are those of Linux).
NextClean ==
  \/ NextMgr
  \/ \E t \in Targets, force \in BOOLEAN : CleanupStaleMount(t, force)

SpecClean == InitMgr /\ [][NextClean]_vars

\* The client window: widgets, worker threads and their helpers.
Next ==
  \/ DisplayBuckets
  \/ \E b \in Buckets : ToggleMount(b)
  \/ \E w \in WorkerIds : WorkerStep(w)
  \/ \E w \in WorkerIds : OnMountFinished(w)
  \/ \E w \in WorkerIds : OnUnmountFinished(w)
  \/ HelperStartup

Spec == Init /\ [][Next]_vars

\* The client window of a user whose buckets can disappear from the
\* account and who can log out; the machine may have been booted with an
\* auto-mount unit running.
InitLife ==
  \/ Init
  \/ InitLinuxBooted /\ InitSession /\ NotElevated /\ Installed

NextLife ==
  \/ Next
  \/ Logout
  \/ \E b \in Buckets : SyncBucketStats(b)

SpecLife == InitLife /\ [][NextLife]_vars

\* The allocator on the machine as the client finds it, mounts of earlier
\* runs included.
NextAlloc ==
  \/ DisplayBuckets
  \/ HelperFault

SpecAlloc == InitAlloc /\ [][NextAlloc]_vars

\* The auto-mount registrations.
NextAuto ==
  \/ \E b \in Buckets, t \in Targets : CreateAutoMountService(b, t)
  \/ \E b \in Buckets : RemoveAutoMountService(b)
  \/ \E c \in services.pending : ElevatedRun(c)

SpecAuto == InitAuto /\ [][NextAuto]_vars

\* The client window with its auto-mount checkboxes, elevated or not.
NextToggle ==
  \/ DisplayBuckets
  \/ \E b \in Buckets, enabled \in BOOLEAN, lowUsed \in SUBSET {LowLetterList[i] : i \in DOMAIN LowLetterList} :
       ToggleAutoMount(b, enabled, lowUsed)
  \/ \E c \in services.pending : ElevatedRun(c)

SpecToggle == InitAuto /\ [][NextToggle]_vars

\* The machine at login, when the scheduled task runs main(): a mount of
\* an earlier run may be there, and its backend can fail.
NextMain ==
  \/ \E b \in Buckets, t \in Targets, given \in BOOLEAN, saved \in BOOLEAN :
       Main(b, t, given, saved)
  \/ \E t \in Targets : BackendError(t)

SpecMain == InitAlloc /\ [][NextMain]_vars

\* ------------------------------------------------------------------ claims
MountDone(w) == workers[w].op = "mount" /\ workers[w].pc = "done"
UnmountDone(w) == workers[w].op = "unmount" /\ workers[w].pc = "done"
InProgress(w) == workers[w].op # "idle" /\ workers[w].pc # "done"

\* C1: a mount_bucket call made while the target probes healthy
\* (is_mounted was true when the call began, the state a first mount
\* leaves) returns success and starts no rclone.
C1_SecondMountIsNoOp ==
  \A w \in WorkerIds :
    (MountDone(w) /\ workers[w].healthyAtCall)
      => (workers[w].result = "ok" /\ workers[w].launched = 0)

\* What the OS has at a target that is not mounted and never was: nothing,
\* or a plain directory or file.
NeverMounted(t) == fs[t].kind \in {"absent", "dir", "file"}

\* C2: unmount_bucket on a target that was never mounted (nothing is
\* there, or what is there is not a mount) returns success, runs no
\* unmount command and changes nothing on the machine.
C2_UnmountNeverMountedIsNoOp ==
  [][\A w \in WorkerIds :
       (/\ workers[w].op = "unmount" /\ workers[w].pc = "run"
        /\ workers'[w].pc = "done"
        /\ NeverMounted(workers[w].target))
       => (/\ workers'[w].result = "ok"
           /\ workers'[w].cmds = <<>>
           /\ fs' = fs
           /\ helpers' = helpers)]_vars

\* An unmount_bucket call has returned for a target holding a plain
\* directory, and one for a target holding nothing.
C2_Witness ==
  \E w \in WorkerIds :
    /\ UnmountDone(w)
    /\ workers[w].result = "ok"
    /\ workers[w].err = "notmounted"
    /\ fs[workers[w].target].kind = "dir"

\* C3: is_mounted is false for every target that has a mount-table entry
\* but whose directory listing fails, whatever the kind of target.
C3_StaleIsNotMounted ==
  \A t \in Targets : (IsMountEntry(t) /\ ~ListdirOk(t)) => ~is_mounted(t)

\* C4: once mount_bucket has returned the readiness failure (no probe of
\* the window found the target mounted), the target is not mounted and a
\* later is_mounted on it returns false.
C4_TimeoutLeavesUnmounted ==
  \A w \in WorkerIds :
    (MountDone(w) /\ workers[w].err \in {"timeout", "inactive"})
      => ~is_mounted(workers[w].target)

\* C5: on a machine whose other pool letters are all taken, two buckets
\* mounted together on the one free drive letter never both get success
\* for it.
C5_OneSlotOneWinner ==
  \A w1 \in WorkerIds, w2 \in WorkerIds :
    (/\ w1 # w2
     /\ MountDone(w1) /\ MountDone(w2)
     /\ workers[w1].bucket # workers[w2].bucket
     /\ workers[w1].target = workers[w2].target
     /\ IsDrive(workers[w1].target)
     /\ \A t \in DriveTargets \ {workers[w1].target} : fs[t].kind = "volume")
    => ~(workers[w1].result = "ok" /\ workers[w2].result = "ok")

\* C6: no two operations on the same bucket are in progress together.
C6_SameBucketSerialized ==
  \A w1 \in WorkerIds, w2 \in WorkerIds :
    (w1 # w2 /\ InProgress(w1) /\ InProgress(w2))
      => workers[w1].bucket # workers[w2].bucket

\* C7: _find_existing_bucket_drive returns a drive for a bucket only if
\* the label of that drive is the bucket's own marker.
C7_NoFalseAdoption ==
  \A b \in Buckets :
    LET d == FindExistingBucketDrive(fs, b) IN
    d # "" => VolumeLabelAt(fs[DriveOf(d)]) = VolName(b)

\* What a drive letter, and the home folders, can hold on another machine.
DriveContents ==
  {Absent, ForeignVolume}
  \cup {[MountBy(o, 0, TRUE) EXCEPT !.health = h] :
          o \in AllNames, h \in {"ok", "ioerr"}}
OtherMachines ==
  {[t \in Targets |-> IF IsDrive(t) THEN g[t] ELSE h] :
     g \in [DriveTargets -> DriveContents], h \in {Absent, UserDir}}

\* Each other machine with its pool of unused letters and the buckets it
\* has no adoption match for.
OtherPools ==
  {[f |-> f2,
    pool |-> GetAvailableDriveLetters(f2),
    unadopted |-> {b \in Buckets : FindExistingBucketDrive(f2, b) = ""}] :
     f2 \in OtherMachines}

\* C8: the allocation is a function of the bucket name and the pool of
\* unused letters.  With no adoption match, any machine with the same pool
\* gets the same target: on Windows the pool letter at index
\* md5(bucket) mod pool size, on POSIX the per-bucket directory under home.
C8_AllocationDeterministic ==
  \A b \in Buckets :
    /\ platform = Linux => AllocateMountPoint(b) = FolderOf(b)
    /\ (platform = Windows /\ FindExistingBucketDrive(fs, b) = "") =>
         LET pool == GetAvailableDriveLetters(fs)
             here == AllocateIn(fs, b)
         IN
         /\ pool # <<>> => here = DriveOf(pool[(Md5(b) % Len(pool)) + 1])
         /\ \A m \in OtherPools :
              (m.pool = pool /\ b \in m.unadopted) => AllocateIn(m.f, b) = here

\* The widgets were built at least twice, and a bucket with no adoption
\* match holds the pool letter the allocation gives now; one pool letter
\* is taken by a volume that cannot be listed.
C8_Witness ==
  /\ platform = Windows
  /\ uiops >= 2
  /\ \E b \in Buckets :
       /\ FindExistingBucketDrive(fs, b) = ""
       /\ GetAvailableDriveLetters(fs) # <<>>
       /\ IsDrive(widgets[b].mount_point)
       /\ widgets[b].mount_point = AllocateMountPoint(b)
  /\ \E t \in DriveTargets : fs[t].kind = "mount" /\ fs[t].health = "ioerr"

\* The session of a bucket is not UNMOUNTED: a mount or unmount of it is
\* in progress, or its rclone serves its widget's target.
SessionActive(b) ==
  /\ widgets[b].mount_point # NoTarget
  /\ \/ \E w \in WorkerIds : InProgress(w) /\ workers[w].bucket = b
     \/ /\ fs[widgets[b].mount_point].kind = "mount"
        /\ fs[widgets[b].mount_point].owner = b

\* C9: the target of a bucket does not change while its session is not
\* UNMOUNTED, a rebuild of the widgets included.
C9_TargetStableWhileActive ==
  [][\A b \in Buckets :
       SessionActive(b) => widgets'[b].mount_point = widgets[b].mount_point]_vars

\* C10: after a create or remove call that returned success,
\* is_auto_mount_service_enabled answers what was asked for.
C10_AutoMountRoundTrip ==
  autoq.result = "ok" =>
    is_auto_mount_service_enabled(autoq.bucket) = autoq.want

C12_SuccessFollowsAccessProbe ==
  [][\A w \in WorkerIds :
       (/\ workers[w].op = "mount" /\ workers[w].pc # "done"
        /\ workers'[w].pc = "done"
        /\ workers'[w].result = "ok")
       => LET t == workers[w].target IN
          IsMountedAt(t, fs'[t]) /\ ListdirOkAt(fs'[t])]_vars

\* C13: at the moment unmount_bucket returns success, whichever path
\* returned it, the OS has no mount at the target.
C13_SuccessMeansNotVisible ==
  [][\A w \in WorkerIds :
       (/\ workers[w].op = "unmount" /\ workers[w].pc = "run"
        /\ workers'[w].pc = "done"
        /\ workers'[w].result = "ok")
       => ~IsMountEntryAt(fs'[workers[w].target])]_vars

\* C14: an unmount_bucket call whose plain commands and retries failed and
\* whose `umount -l` succeeded returns success, and is_mounted on the
\* target is false when it returns.
C14_LazyUnmountLeavesUnmounted ==
  [][\A w \in WorkerIds :
       (/\ workers[w].op = "unmount" /\ workers[w].pc = "run"
        /\ workers'[w].pc = "done"
        /\ workers'[w].err = "lazy")
       => (/\ workers'[w].result = "ok"
           /\ ~IsMountedAt(workers[w].target, fs'[workers[w].target]))]_vars

\* C15: on Windows an unmount started for a bucket terminates no rclone
\* that serves or is starting for another bucket.
C15_UnmountKillsOwnHelperOnly ==
  [][\A w \in WorkerIds :
       (/\ platform = Windows
        /\ workers[w].op = "unmount" /\ workers[w].pc = "run"
        /\ workers'[w].pc = "done")
       => \A h \in HelperIds :
            (helpers[h].st # "free" /\ helpers'[h].st = "free")
              => helpers[h].bucket = workers[w].bucket]_vars

\* C16: a create_auto_mount_service or remove_auto_mount_service call for
\* a bucket leaves is_mounted of every mount point of the bucket as it was.
C16_ToggleLeavesMountAlone ==
  [][\A b \in Buckets :
       ((\E t \in Targets : CreateAutoMountService(b, t)) \/ RemoveAutoMountService(b))
       => \A t \in MountPointsFor(b) \cap Targets :
            IsMountedAt(t, fs'[t]) = is_mounted(t)]_vars

\* The registrations whose content names the bucket
RegistrationsOf(reg, b) == {e \in reg : e.bucket = b}

\* C17: a create_auto_mount_service call for a bucket whose auto-mount is
\* already enabled, the credentials or elevation it asks for being given,
\* returns success and leaves one registration for the bucket, stored
\* under the name made of user and bucket.
C17_EnableIsIdempotent ==
  [][\A b \in Buckets, t \in Targets :
       (/\ CreateAutoMountService(b, t)
        /\ is_auto_mount_service_enabled(b)
        /\ autoq'.auth \in {"granted", "none"})
       => (/\ autoq'.result = "ok"
           /\ Cardinality(RegistrationsOf(services'.reg, b)) = 1
           /\ \A e \in RegistrationsOf(services'.reg, b) :
                e.name = IF platform = Linux THEN ServiceName(b) ELSE TaskName(b))]_vars

\* Auto-mount has been enabled for a bucket that had it enabled, with
\* another mount point than the one registered before.
C17_Witness ==
  /\ autoq.want /\ autoq.before /\ autoq.result = "ok"
  /\ \E e \in RegistrationsOf(services.reg, autoq.bucket) :
       e.mount_point # FolderOf(autoq.bucket)
  /\ Cardinality(RegistrationsOf(services.reg, autoq.bucket)) = 1

\* C18: a remove_auto_mount_service call for a bucket that has no
\* registration, the credentials or elevation it asks for being given,
\* returns success, on Linux and on Windows.
C18_DisableAbsentSucceeds ==
  [][\A b \in Buckets :
       (/\ RemoveAutoMountService(b)
        /\ RegAt(services.reg, IF platform = Linux THEN ServiceName(b) ELSE TaskName(b)) = {}
        /\ autoq'.auth \in {"granted", "none"})
       => autoq'.result = "ok"]_vars

\* A prerequisite of mounting is missing: rclone, or FUSE on Linux, or
\* WinFsp on Windows.
PrerequisiteMissing ==
  ~rclone \/ (platform = Linux /\ ~fuse) \/ (platform = Windows /\ ~winfsp)

\* C19: with a prerequisite missing, a mount_bucket call on a target that
\* was not mounted returns failure and has started no rclone mount.
C19_NoLaunchWithoutPrerequisites ==
  \A w \in WorkerIds :
    (MountDone(w) /\ PrerequisiteMissing /\ ~workers[w].healthyAtCall)
      => (workers[w].result = "fail" /\ workers[w].launched = 0)

\* C20: a mount_bucket call on a directory target that is absent creates
\* the directory; on a non-empty directory that is not a mount it returns
\* failure, has started no rclone mount and leaves the directory as it was.
C20_DirectoryPreparation ==
  [][\A w \in WorkerIds :
       (workers[w].op = "mount" /\ workers[w].pc = "prepare" /\ workers'[w].pc # "prepare")
       => LET t == workers[w].target IN
          /\ (~IsDrive(t) /\ fs[t].kind = "absent") => fs'[t].kind = "dir"
          /\ (fs[t].kind = "dir" /\ fs[t].nonempty)
               => (/\ workers'[w].pc = "done"
                   /\ workers'[w].result = "fail"
                   /\ workers'[w].launched = 0
                   /\ fs'[t] = fs[t]
                   /\ helpers' = helpers)]_vars

\* mount_bucket has refused a non-empty directory on Windows, which is
\* still there with its content.
C20_Witness ==
  \E w \in WorkerIds :
    /\ MountDone(w)
    /\ platform = Windows
    /\ workers[w].err = "notempty"
    /\ fs[workers[w].target] = UserDir

\* The target is in legitimate use by something else: a non-empty
\* directory that is not a mount, or a drive letter holding a volume that
\* is not ours.
InUseByOther(t) ==
  \/ ~IsDrive(t) /\ fs[t].kind = "dir" /\ fs[t].nonempty
  \/ IsDrive(t) /\ fs[t].kind = "volume"

\* C21: a mount_bucket call that finds its target in legitimate use by
\* something else goes on to a second attempt on a different target; it
\* does not return on the first conflict.
C21_ConflictRetriesOtherTarget ==
  [][\A w \in WorkerIds :
       (/\ workers[w].op = "mount" /\ workers[w].pc = "prepare"
        /\ workers'[w].pc # "prepare"
        /\ InUseByOther(workers[w].target))
       => (/\ workers'[w].pc # "done"
           /\ workers'[w].target # workers[w].target)]_vars

\* C22: at most one rclone process is bound to a target at any time, and
\* none is bound to the target of a mount_bucket call that has returned
\* failure.
C22_OneHelperPerTarget ==
  /\ \A t \in Targets : Cardinality(HelpersBoundTo(t)) <= 1
  /\ \A w \in WorkerIds :
       (MountDone(w) /\ workers[w].result = "fail")
         => HelpersBoundTo(workers[w].target) = {}

\* After the step, nothing of bucket b is left: no target holds a mount of
\* it, its widget's target is not mounted, no rclone runs for it and it
\* has no widget.
TornDown(b) ==
  /\ \A t \in Targets : ~(fs'[t].kind = "mount" /\ fs'[t].owner = b)
  /\ widgets[b].mount_point # NoTarget
       => ~IsMountedAt(widgets[b].mount_point, fs'[widgets[b].mount_point])
  /\ \A h \in HelperIds : helpers'[h].st # "free" => helpers'[h].bucket # b
  /\ widgets'[b] = NoWidget

\* C23: after sync_bucket_stats has handled a bucket that is no longer
\* listed, and after logout, no target of the bucket is mounted and no
\* session of it remains, whether the unmount succeeded or failed.
C23_TornDownOnRemovalAndLogout ==
  [][/\ \A b \in Buckets : SyncBucketStats(b) => TornDown(b)
     /\ Logout => \A b \in buckets : TornDown(b)]_vars

\* The steps of the Linux unmount ladder in their order
Ladder == PlainCommands \o <<"lsof", "pkill">> \o RetryCommands \o <<"umount -l">>

\* Where a command stands in the ladder
LadderPos(c) == CHOOSE i \in 1..Len(Ladder) : Ladder[i] = c

\* C24: the commands an unmount_bucket call runs on Linux follow the order
\* of the ladder, beginning with the plain commands one after the other;
\* a call that succeeded ran nothing after the command that succeeded:
\* after a plain success no process check, no process closing, no retry
\* and no lazy unmount, after a retry's success no lazy unmount; and
\* processes are closed only after all three plain commands failed.
C24_LadderInOrderStopsAtSuccess ==
  [][\A w \in WorkerIds :
       (/\ platform = Linux
        /\ workers[w].op = "unmount" /\ workers[w].pc = "run"
        /\ workers'[w].pc = "done"
        /\ workers'[w].cmds # <<>>)
       => LET c == workers'[w].cmds
              ran == {c[i] : i \in 1..Len(c)}
              plain == {PlainCommands[i] : i \in 1..3}
              retry == {RetryCommands[i] : i \in 1..2}
          IN
          /\ \A i \in 1..Len(c) : \E j \in 1..Len(Ladder) : Ladder[j] = c[i]
          /\ \A i \in 1..(Len(c) - 1) : LadderPos(c[i]) < LadderPos(c[i + 1])
          /\ \A i \in 1..Len(c) : i <= 3 => c[i] = PlainCommands[i]
          /\ "pkill" \in ran => (plain \subseteq ran /\ "lsof" \in ran)
          /\ (retry \cap ran # {}) => "pkill" \in ran
          /\ "fusermount -u again" \in ran \/ "umount again" \notin ran
          /\ "umount -l" \in ran => plain \subseteq ran
          /\ workers'[w].result = "ok" =>
               /\ workers'[w].err \in {"unmounted", "closed", "lazy"}
               /\ workers'[w].err = "unmounted" => ran \subseteq plain
               /\ workers'[w].err = "closed" =>
                    (c[Len(c)] \in retry /\ "umount -l" \notin ran)
               /\ workers'[w].err = "lazy" => c[Len(c)] = "umount -l"]_vars

\* An unmount_bucket call on Linux has succeeded at the second retry after
\* the file managers were closed.
C24_Witness ==
  \E w \in WorkerIds :
    /\ platform = Linux
    /\ UnmountDone(w)
    /\ workers[w].result = "ok"
    /\ workers[w].err = "closed"
    /\ Len(workers[w].cmds) = 7

\* C25: every mount_bucket and unmount_bucket call returns: the readiness
\* loop makes at most 15 probes, an unmount runs each command of its
\* ladder at most once, and a call that has begun reaches its result.
C25_CallsTerminate ==
  /\ [](\A w \in WorkerIds :
          /\ workers[w].polls <= MOUNT_POLLS
          /\ Len(workers[w].cmds) <= Len(Ladder))
  /\ \A w \in WorkerIds : (workers[w].op # "idle") ~> (workers[w].pc = "done")

\* The target is stale: the mount table has it and listing it fails.
Stale(t) == IsMountEntry(t) /\ ~ListdirOk(t)

\* C26: a mount_bucket call on a stale target does not end at the
\* preparation with an error about the mount point; when it goes on to
\* start rclone the dangling mount is gone and the target is a fresh
\* directory.
C26_StaleIsCleanedBeforeMount ==
  [][\A w \in WorkerIds :
       (/\ workers[w].op = "mount" /\ workers[w].pc = "prepare"
        /\ workers'[w].pc # "prepare"
        /\ Stale(workers[w].target))
       => LET t == workers[w].target IN
          /\ workers'[w].err \notin {"error", "notempty", "isfile"}
          /\ workers'[w].pc = "launch" => fs'[t] = EmptyDir]_vars

\* C27: RcloneManager.is_stale_mount and the is_stale_mount of the cleanup
\* script give the same answer for whatever the OS has at a target.
C27_ClassifiersAgree ==
  \A t \in Targets : is_stale_mount(t) = script_is_stale_mount(t)

\* The target holds data of the user's: a non-empty directory that is not
\* a mount, or a file.
HoldsUserData(t) == fs[t] = UserDir \/ fs[t] = PlainFile

\* C28: a cleanup_stale_mount call without force on a target that is not
\* stale returns failure and changes nothing; whatever the call, a
\* directory is removed only if it was empty, the call fails when the
\* directory it finds is not empty, and data of the user's at the target
\* is still there afterwards.
C28_CleanupKeepsUserData ==
  [][\A t \in FolderTargets, force \in BOOLEAN :
       CleanupStaleMount(t, force)
       => /\ (~force /\ ~script_is_stale_mount(t))
               => (script' = "notstale" /\ fs' = fs /\ helpers' = helpers)
          /\ (fs[t].kind = "dir" /\ fs'[t].kind = "absent") => ~fs[t].nonempty
          /\ (fs'[t].kind = "dir" /\ fs'[t].nonempty) => script' # "ok"
          /\ HoldsUserData(t) => fs'[t] = fs[t]]_vars

\* C29: on both platforms, the mount point toggle_auto_mount passes to
\* create_auto_mount_service for a bucket is the mount point allocated for
\* that bucket's widget.
C29_RegisteredTargetIsWidgetTarget ==
  [][\A b \in Buckets, lowUsed \in SUBSET {LowLetterList[i] : i \in DOMAIN LowLetterList} :
       ToggleAutoMount(b, TRUE, lowUsed)
         => ToggleMountPoint(fs, b, lowUsed) = widgets[b].mount_point]_vars

\* C30: main() in --auto-mount mode returns 2 when an argument is missing
\* and 3 when no credentials are saved; with arguments and credentials
\* there it returns 0, 4, 5 or 6 (mounted, authentication failed, WinFsp
\* missing, mount_bucket failed), and 0 exactly when the bucket is mounted
\* at the mount point when it returns.
C30_ExitCodeTellsMounted ==
  [][\A b \in Buckets, t \in Targets, given \in BOOLEAN, saved \in BOOLEAN :
       Main(b, t, given, saved)
         => /\ ~given => exitcode' = 2
            /\ (given /\ ~saved) => exitcode' = 3
            /\ (given /\ saved)
                 => /\ exitcode' \in {0, 4, 5, 6}
                    /\ exitcode' = 0 <=> IsMountedAt(t, fs'[t])]_vars

====
